---- MODULE Spec2Model ----
(***************************************************************************)
(* FlexBox of pil_css.py: a container that breaks its child images into    *)
(* lines, grows its canvas when the lines overflow, and pastes every child *)
(* at a position decided by justify and align_items.                       *)
(*                                                                         *)
(* An image is [width, height, pixels]: pixels is the sequence of pastes   *)
(* made onto the image, each [item, at], in paste order (the colour of the *)
(* background is not modelled).  Children are plain images; a nested        *)
(* FlexBox child contributes only the image its own render() returns.      *)
(***************************************************************************)
EXTENDS Integers, Sequences, FiniteSets

VARIABLES
    image,        \* self.image
    size,         \* self.size, the canvas size captured by __init__
    width,        \* self.width
    height,       \* self.height
    items,        \* self.items
    padding,      \* self.padding
    gap,          \* self.gap
    direction,    \* self.direction
    justify,      \* self.justify
    align_items,  \* self.align_items
    flex_wrap,    \* self.flex_wrap
    rendered,     \* self._rendered
    last,         \* the last call: which method, whether it raised, whether it repeats a render
    layout,       \* the locals of the last render() that reached STEP 1
    render_done,  \* some render() call has returned
    extensions    \* how many times render has called add_padding

vars == <<image, size, width, height, items, padding, gap, direction, justify,
          align_items, flex_wrap, rendered, last, layout, render_done, extensions>>

----------------------------------------------------------------------------
(* Bounds of the inputs. *)
MaxItems == 3
MaxDim == 2
MaxCanvas == 4
MaxPad == 1
MaxGap == 1

Directions == {"row", "column"}
Justifies == {"start", "end", "center", "space-between", "space-around", "space-evenly"}
Aligns == {"start", "end", "center"}
Wraps == {"nowrap", "wrap"}
\* A literal that none of the four options recognises.
Unrecognized == "stretch"

Images == [width : 1..MaxDim, height : 1..MaxDim, pixels : {<<>>}]

RECURSIVE SeqsUpTo(_, _)
SeqsUpTo(S, n) ==
    IF n = 0 THEN {<<>>}
    ELSE LET shorter == SeqsUpTo(S, n - 1)
         IN  shorter \cup {Append(s, x) : s \in {t \in shorter : Len(t) = n - 1}, x \in S}

Max(a, b) == IF a >= b THEN a ELSE b

----------------------------------------------------------------------------
(* self, as the methods see it. *)
Self ==
    [image |-> image, size |-> size, width |-> width, height |-> height,
     items |-> items, padding |-> padding, gap |-> gap, direction |-> direction,
     justify |-> justify, align_items |-> align_items, flex_wrap |-> flex_wrap,
     rendered |-> rendered]

\* FlexBox.__init__
NewFlexBox(img, p, g, d, j, a, w) ==
    [image |-> img, size |-> <<img.width, img.height>>,
     width |-> img.width, height |-> img.height,
     items |-> <<>>, padding |-> p, gap |-> g, direction |-> d,
     justify |-> j, align_items |-> a, flex_wrap |-> w, rendered |-> FALSE]

----------------------------------------------------------------------------
(* add_padding: the enlarged image, or raised. *)
Shifted(pixels, dx, dy) ==
    [k \in 1..Len(pixels) |->
        [pixels[k] EXCEPT !.at = <<pixels[k].at[1] + dx, pixels[k].at[2] + dy>>]]

\* Image.new followed by the paste of the old image at (dx, dy).
NewImageWith(img, w, h, dx, dy) ==
    IF w < 0 \/ h < 0
    THEN [raised |-> TRUE, image |-> img]
    ELSE [raised |-> FALSE,
          image |-> [width |-> w, height |-> h, pixels |-> Shifted(img.pixels, dx, dy)]]

add_padding(img, pad, type) ==
    CASE type = "all"    -> NewImageWith(img, img.width + 2 * pad, img.height + 2 * pad, pad, pad)
      [] type = "left"   -> NewImageWith(img, img.width + pad, img.height, pad, 0)
      [] type = "right"  -> NewImageWith(img, img.width + pad, img.height, 0, 0)
      [] type = "top"    -> NewImageWith(img, img.width, img.height + pad, 0, pad)
      [] type = "bottom" -> NewImageWith(img, img.width, img.height + pad, 0, 0)
      [] type = "x"      -> NewImageWith(img, img.width + pad * 2, img.height, pad, 0)
      [] type = "y"      -> NewImageWith(img, img.width, img.height + pad * 2, 0, pad)
      [] OTHER           -> [raised |-> TRUE, image |-> img]

----------------------------------------------------------------------------
(* render, STEP 1: line breaking. *)
\* A direction test that asks for "column" instead.
IsNotColumn(self) == self.direction # "column"

IsRow(self) == self.direction = "row"

ItemMain(self, item) == IF IsRow(self) THEN item.width ELSE item.height
ItemCross(self, item) == IF IsRow(self) THEN item.height ELSE item.width
ContainerMain(self) == IF IsRow(self) THEN self.width ELSE self.height
ContainerCross(self) == IF IsRow(self) THEN self.height ELSE self.width

\* A line test that forgets the padding.
BreaksIgnoresPadding(self, current_main, required_space, container_main) ==
    /\ self.flex_wrap = "wrap"
    /\ current_main + required_space > container_main

\* The test that closes the current line before an item.
Breaks(self, current_main, required_space, container_main) ==
    /\ self.flex_wrap = "wrap"
    /\ current_main + required_space > container_main - 2 * self.padding

\* What the loop does with one item when a line has to be closed.
CloseLine(lines, current_line) == Append(lines, current_line)

RECURSIVE BreakLoop(_, _, _, _, _, _, _)
BreakLoop(self, rendered_items, k, lines, current_line, current_main, container_main) ==
    IF k > Len(rendered_items)
    THEN IF current_line # <<>> THEN Append(lines, current_line) ELSE lines
    ELSE LET item == rendered_items[k]
             item_main == ItemMain(self, item)
             required_space == item_main + (IF current_line # <<>> THEN self.gap ELSE 0)
         IN  IF Breaks(self, current_main, required_space, container_main)
             THEN BreakLoop(self, rendered_items, k + 1, CloseLine(lines, current_line),
                            <<item>>, item_main, container_main)
             ELSE BreakLoop(self, rendered_items, k + 1, lines,
                            Append(current_line, item), current_main + required_space,
                            container_main)

BreakLines(self, rendered_items) ==
    BreakLoop(self, rendered_items, 1, <<>>, <<>>, 0, ContainerMain(self))

----------------------------------------------------------------------------
(* render, cross-axis sizing and the overflow extension. *)
RECURSIVE MaxCross(_, _)
\* max(item cross size for item in line), of a non-empty line.
MaxCross(self, line) ==
    IF Len(line) = 1 THEN ItemCross(self, line[1])
    ELSE Max(ItemCross(self, line[1]), MaxCross(self, Tail(line)))

RECURSIVE TotalMain(_, _)
\* sum(item main size for item in line)
TotalMain(self, line) ==
    IF line = <<>> THEN 0 ELSE ItemMain(self, line[1]) + TotalMain(self, Tail(line))

\* max() of an empty line raises ValueError.
HasEmptyLine(lines) == \E k \in 1..Len(lines) : lines[k] = <<>>

RECURSIVE TotalMax(_, _)
TotalMax(self, lines) ==
    IF lines = <<>> THEN 0
    ELSE MaxCross(self, lines[1]) + self.gap + TotalMax(self, Tail(lines))

\* The test that sends render into add_padding.
Overflows(self, total_max) == total_max > self.height

\* An extension that adds the padding on one side only.
ExtensionOnePadding(self, total_max) == total_max - ContainerCross(self) + self.padding

\* The amount handed to add_padding.
Extension(self, total_max) == total_max - ContainerCross(self) + self.padding * 2

ExtensionType(self) == IF IsRow(self) THEN "bottom" ELSE "right"

\* self after the overflow step (self.image, self.width and self.height).
Extend(self, total_max) ==
    IF Overflows(self, total_max)
    THEN LET new == add_padding(self.image, Extension(self, total_max), ExtensionType(self))
         IN  IF new.raised THEN [raised |-> TRUE, self |-> self]
             ELSE [raised |-> FALSE,
                   self |-> [self EXCEPT !.image = new.image,
                                         !.width = new.image.width,
                                         !.height = new.image.height]]
    ELSE [raised |-> FALSE, self |-> self]

----------------------------------------------------------------------------
(* render, STEP 2: the start of the main cursor and the gap of one line. *)
TotalGapSpace(self, line) == ContainerMain(self) - 2 * self.padding - TotalMain(self, line)

\* A space-between that keeps the configured gap.
JustifiedKeepsGap(self, line) ==
    LET total_main_size == TotalMain(self, line)
        num_items == Len(line)
        total_gap_space == TotalGapSpace(self, line)
    IN  CASE self.justify = "end" ->
               [main_cursor |-> ContainerMain(self) - self.padding - total_main_size
                                  - self.gap * (num_items - 1),
                gap |-> self.gap]
          [] self.justify = "center" ->
               [main_cursor |-> self.padding
                                  + (total_gap_space - self.gap * (num_items - 1)) \div 2,
                gap |-> self.gap]
          [] self.justify = "space-around" ->
               [main_cursor |-> self.padding + (total_gap_space \div num_items) \div 2,
                gap |-> total_gap_space \div num_items]
          [] self.justify = "space-evenly" ->
               [main_cursor |-> self.padding + total_gap_space \div (num_items + 1),
                gap |-> total_gap_space \div (num_items + 1)]
          [] OTHER ->
               [main_cursor |-> self.padding, gap |-> self.gap]

Justified(self, line) ==
    LET total_main_size == TotalMain(self, line)
        num_items == Len(line)
        total_gap_space == TotalGapSpace(self, line)
    IN  CASE self.justify = "start" ->
               [main_cursor |-> self.padding, gap |-> self.gap]
          [] self.justify = "end" ->
               [main_cursor |-> ContainerMain(self) - self.padding - total_main_size
                                  - self.gap * (num_items - 1),
                gap |-> self.gap]
          [] self.justify = "center" ->
               [main_cursor |-> self.padding
                                  + (total_gap_space - self.gap * (num_items - 1)) \div 2,
                gap |-> self.gap]
          [] self.justify = "space-between" /\ num_items > 1 ->
               [main_cursor |-> self.padding, gap |-> total_gap_space \div (num_items - 1)]
          [] self.justify = "space-around" ->
               [main_cursor |-> self.padding + (total_gap_space \div num_items) \div 2,
                gap |-> total_gap_space \div num_items]
          [] self.justify = "space-evenly" ->
               [main_cursor |-> self.padding + total_gap_space \div (num_items + 1),
                gap |-> total_gap_space \div (num_items + 1)]
          [] OTHER ->
               [main_cursor |-> self.padding, gap |-> self.gap]

\* The cross position of one item of a line.
Cross(self, item, cross_cursor, alignment_offset, max_cross) ==
    CASE self.align_items = "center" ->
           cross_cursor + (alignment_offset + (max_cross - ItemCross(self, item))) \div 2
      [] self.align_items = "end" ->
           cross_cursor + (alignment_offset + (max_cross - ItemCross(self, item)))
      [] OTHER -> cross_cursor

\* The box handed to paste: (main, cross) in a row, (cross, main) otherwise.
PasteAt(self, main_cursor, cross) ==
    IF IsRow(self) THEN <<main_cursor, cross>> ELSE <<cross, main_cursor>>

\* A cursor that forgets the gap.
AdvanceNoGap(self, item, main_cursor, g) == main_cursor + ItemMain(self, item)

\* The cursor after an item.
Advance(self, item, main_cursor, g) == main_cursor + ItemMain(self, item) + g

RECURSIVE PlaceLine(_, _, _, _, _, _, _, _)
\* The inner loop: the boxes of the items of a line from item k on, and the
\* main cursor after the last one.
PlaceLine(self, line, k, main_cursor, g, cross_cursor, alignment_offset, max_cross) ==
    IF k > Len(line) THEN [at |-> <<>>, main_cursor |-> main_cursor]
    ELSE LET item == line[k]
             here == PasteAt(self, main_cursor,
                             Cross(self, item, cross_cursor, alignment_offset, max_cross))
             rest == PlaceLine(self, line, k + 1, Advance(self, item, main_cursor, g), g,
                               cross_cursor, alignment_offset, max_cross)
         IN  [at |-> <<here>> \o rest.at, main_cursor |-> rest.main_cursor]

RECURSIVE PlaceLines(_, _, _, _, _)
\* The outer loop: one record per line, from line k on.
PlaceLines(self, lines, k, cross_cursor, alignment_offset) ==
    IF k > Len(lines) THEN <<>>
    ELSE LET line == lines[k]
             max_cross == MaxCross(self, line)
             j == Justified(self, line)
             placed == PlaceLine(self, line, 1, j.main_cursor, j.gap, cross_cursor,
                                 alignment_offset, max_cross)
         IN  <<[line |-> line, start |-> j.main_cursor, gap |-> j.gap,
                cross_cursor |-> cross_cursor, at |-> placed.at,
                main_cursor |-> placed.main_cursor]>>
             \o PlaceLines(self, lines, k + 1, cross_cursor + max_cross + self.gap,
                           alignment_offset)

RECURSIVE Pasted(_)
\* The pastes of the placed lines, in the order render makes them.
Pasted(placed) ==
    IF placed = <<>> THEN <<>>
    ELSE [k \in 1..Len(placed[1].line) |->
             [item |-> [width |-> placed[1].line[k].width,
                        height |-> placed[1].line[k].height],
              at |-> placed[1].at[k]]]
         \o Pasted(Tail(placed))

----------------------------------------------------------------------------
(* FlexBox.render: self after the call, whether it raised, and its locals  *)
(* (none when it returned before STEP 1).                                  *)
NoLayout == [lines |-> <<>>, placed |-> <<>>]

\* A render that forgets its flag.
CachedNever(self) == FALSE

\* The first early return.
Cached(self) == self.rendered

render(self) ==
    IF Cached(self)
    THEN [raised |-> FALSE, self |-> self, ran |-> FALSE, extended |-> FALSE,
          layout |-> NoLayout]
    ELSE IF self.items = <<>>
    THEN [raised |-> FALSE, self |-> self, ran |-> FALSE, extended |-> FALSE,
          layout |-> NoLayout]
    ELSE
    LET rendered_items == self.items
        lines == BreakLines(self, rendered_items)
    IN  IF HasEmptyLine(lines)
        THEN [raised |-> TRUE, self |-> self, ran |-> TRUE, extended |-> FALSE,
              layout |-> [lines |-> lines, placed |-> <<>>]]
        ELSE
        LET total_max == TotalMax(self, lines)
            ext == Extend(self, total_max)
            grown == ext.self
            alignment_offset == ContainerCross(grown) - total_max
            placed == PlaceLines(grown, lines, 1, grown.padding, alignment_offset)
        IN  IF ext.raised
            THEN [raised |-> TRUE, self |-> self, ran |-> TRUE, extended |-> FALSE,
                  layout |-> [lines |-> lines, placed |-> <<>>]]
            ELSE [raised |-> FALSE,
                  self |-> [grown EXCEPT
                              !.image.pixels = grown.image.pixels \o Pasted(placed),
                              !.rendered = TRUE],
                  ran |-> TRUE, extended |-> Overflows(self, total_max),
                  layout |-> [lines |-> lines, placed |-> placed]]

\* FlexBox.add_items
add_items(self, imgs) ==
    IF self.rendered THEN [raised |-> TRUE, self |-> self]
    ELSE [raised |-> FALSE, self |-> [self EXCEPT !.items = self.items \o imgs]]

----------------------------------------------------------------------------
(* The state machine: one box, built by __init__, then any calls. *)
Store(self) ==
    /\ image' = self.image
    /\ width' = self.width
    /\ height' = self.height
    /\ items' = self.items
    /\ rendered' = self.rendered
    /\ UNCHANGED <<size, padding, gap, direction, justify, align_items, flex_wrap>>

Built(box) ==
    /\ image = box.image
    /\ size = box.size
    /\ width = box.width
    /\ height = box.height
    /\ items = box.items
    /\ padding = box.padding
    /\ gap = box.gap
    /\ direction = box.direction
    /\ justify = box.justify
    /\ align_items = box.align_items
    /\ flex_wrap = box.flex_wrap
    /\ rendered = box.rendered
    /\ last = [op |-> "__init__", raised |-> FALSE, again |-> FALSE]
    /\ layout = NoLayout
    /\ render_done = FALSE
    /\ extensions = 0

Canvases == [width : 1..MaxCanvas, height : 1..MaxCanvas, pixels : {<<>>}]
SquareCanvases == {c \in Canvases : c.width = c.height}

BuiltFrom(canvases, dirs, justs, als, wraps) ==
    \E img \in canvases, p \in 0..MaxPad, g \in 0..MaxGap,
       d \in dirs, j \in justs, a \in als, w \in wraps :
        Built(NewFlexBox(img, p, g, d, j, a, w))

\* Every canvas, both directions and wrap modes; justify and align_items at
\* their defaults.
Init == BuiltFrom(Canvases, Directions, {"start"}, {"start"}, Wraps)

\* Every justify mode, on square canvases.
InitJustify == BuiltFrom(SquareCanvases, Directions, Justifies, {"start"}, Wraps)

\* Boxes with exactly one option set to a literal the code does not know.
WideCanvas == {c \in Canvases : c.width = MaxCanvas /\ c.height = MaxCanvas - 1}

InitLiterals ==
    \/ BuiltFrom(WideCanvas, {Unrecognized}, Justifies, Aligns, Wraps)
    \/ BuiltFrom(WideCanvas, Directions, {Unrecognized}, Aligns, Wraps)
    \/ BuiltFrom(WideCanvas, Directions, Justifies, {Unrecognized}, Wraps)
    \/ BuiltFrom(WideCanvas, Directions, Justifies, Aligns, {Unrecognized})

\* The last call was render, directly or through get_rendered_bytes.
Rendering == last.op \in {"render", "get_rendered_bytes"}

AddItems ==
    \E imgs \in SeqsUpTo(Images, MaxItems - Len(items)) \ {<<>>} :
        LET r == add_items(Self, imgs)
        IN  /\ Store(r.self)
            /\ last' = [op |-> "add_items", raised |-> r.raised, again |-> FALSE]
            /\ UNCHANGED <<layout, render_done, extensions>>

Render ==
    LET r == render(Self)
    IN  /\ Store(r.self)
        /\ last' = [op |-> "render", raised |-> r.raised, again |-> Rendering]
        /\ layout' = IF r.ran THEN r.layout ELSE layout
        /\ render_done' = (render_done \/ ~r.raised)
        /\ extensions' = extensions + (IF r.extended THEN 1 ELSE 0)

\* get_rendered_bytes: render, then the image saved to a buffer.
GetRenderedBytes ==
    LET r == render(Self)
    IN  /\ Store(r.self)
        /\ last' = [op |-> "get_rendered_bytes", raised |-> r.raised, again |-> Rendering]
        /\ layout' = IF r.ran THEN r.layout ELSE layout
        /\ render_done' = (render_done \/ ~r.raised)
        /\ extensions' = extensions + (IF r.extended THEN 1 ELSE 0)

Next == AddItems \/ Render \/ GetRenderedBytes

Spec == Init /\ [][Next]_vars
SpecJustify == InitJustify /\ [][Next]_vars
SpecLiterals == InitLiterals /\ [][Next]_vars

----------------------------------------------------------------------------
(* Vocabulary of the properties. *)
\* The last call ran render on a box that had children.
RenderedChildren == Rendering /\ items # <<>>

\* Sum over the lines of (widest or tallest child + gap): total_cross_extent.
RECURSIVE CrossExtent(_)
CrossExtent(lines) ==
    IF lines = <<>> THEN 0
    ELSE LET line == lines[1]
             cross == {IF direction = "row" THEN line[k].height ELSE line[k].width :
                         k \in 1..Len(line)}
         IN  (CHOOSE m \in cross : \A c \in cross : c <= m) + gap + CrossExtent(Tail(lines))

----------------------------------------------------------------------------
\* C1: once a render() call has returned, every add_items call raises
\* 'Cannot add items after rendering', also on a box that had no children
\* when render() was called.
C1_AddAfterRenderRaises ==
    (render_done /\ last.op = "add_items") => last.raised

\* C2: a render() call made right after a render() call returns the same
\* canvas, pastes nothing more and leaves the recorded width and height as
\* they were.
C2_RenderTwice ==
    [][(last.op = "render" /\ last'.op = "render")
         => /\ image' = image
            /\ width' = width
            /\ height' = height
            /\ last'.raised = last.raised]_vars

C2_Witness ==
    /\ last.op = "render"
    /\ last.again
    /\ rendered
    /\ Len(image.pixels) = MaxItems
    /\ extensions = 1

\* C3: in both directions the canvas is never narrower or lower than it was
\* at construction, and render extends it at most once.
C3_NeverShrinks ==
    /\ width >= size[1]
    /\ height >= size[2]
    /\ image.width >= size[1]
    /\ image.height >= size[2]
    /\ extensions <= 1

\* C4: in a column layout render extends the canvas exactly when
\* total_cross_extent exceeds the canvas width; it then adds
\* total_cross_extent - width + 2*padding to the width and leaves the height,
\* and otherwise leaves the size.
C4_ColumnExtendsOnWidth ==
    (rendered /\ direction = "column")
      => LET total_cross_extent == CrossExtent(layout.lines)
         IN  IF total_cross_extent > size[1]
             THEN /\ extensions = 1
                  /\ width = size[1] + (total_cross_extent - size[1] + 2 * padding)
                  /\ height = size[2]
             ELSE /\ extensions = 0
                  /\ <<width, height>> = size

\* C5: in a row layout whose lines' cross extent exceeds the canvas height,
\* render extends the canvas once, to the height
\* original_height + (total_cross_extent - original_height + 2*padding); the
\* width stays, and self.width and self.height are the size of the new canvas.
C5_RowOverflow ==
    (rendered /\ direction = "row" /\ CrossExtent(layout.lines) > size[2])
      => /\ extensions = 1
         /\ image.height = size[2] + (CrossExtent(layout.lines) - size[2] + 2 * padding)
         /\ image.width = size[1]
         /\ width = image.width
         /\ height = image.height

C5_Witness ==
    /\ rendered
    /\ direction = "row"
    /\ Len(layout.lines) = 2
    /\ CrossExtent(layout.lines) > size[2]
    /\ padding > 0
    /\ height > size[2]

----------------------------------------------------------------------------
\* The main-axis size, and the main-axis coordinate of a paste box.
MainSize(item) == IF direction = "row" THEN item.width ELSE item.height
MainOf(at) == IF direction = "row" THEN at[1] ELSE at[2]

RECURSIVE SumMain(_)
SumMain(line) == IF line = <<>> THEN 0 ELSE MainSize(line[1]) + SumMain(Tail(line))

\* container_main - 2*padding
MainBound == (IF direction = "row" THEN width ELSE height) - 2 * padding

\* Children plus one gap between consecutive children.
MainExtent(line) == SumMain(line) + gap * (Len(line) - 1)

\* C6: with flex_wrap 'wrap' no line is longer than container_main -
\* 2*padding, except a line of one child that is itself longer; such a child
\* is still placed, alone on its line, wherever it stands, first included.
C6_WrapCorrect ==
    (RenderedChildren /\ flex_wrap = "wrap")
      => /\ \A k \in 1..Len(layout.lines) :
               \/ MainExtent(layout.lines[k]) <= MainBound
               \/ Len(layout.lines[k]) = 1 /\ MainSize(layout.lines[k][1]) > MainBound
         /\ \A k \in 1..Len(items) :
               MainSize(items[k]) > MainBound
                 => \E n \in 1..Len(layout.placed) : layout.placed[n].line = <<items[k]>>

\* C7: on the single line of a nowrap layout the cursor advances sum to
\* total_main_size + gap*(num_items-1), and with justify start, end or center
\* that is at most container_main - 2*padding.
C7_NoWrapAdvances ==
    (rendered /\ flex_wrap = "nowrap" /\ justify \in {"start", "end", "center"})
      => /\ Len(layout.placed) = 1
         /\ LET only == layout.placed[1]
            IN  /\ only.main_cursor - only.start = MainExtent(only.line)
                /\ MainExtent(only.line) <= MainBound

\* C7 as the code has it: every child, the last one too, advances the cursor
\* by its main size plus the gap, so the advances sum to total_main_size +
\* gap*num_items; the children themselves span total_main_size +
\* gap*(num_items-1) from the first child's start.
C7_NoWrapAdvancesAmended ==
    (rendered /\ flex_wrap = "nowrap" /\ justify \in {"start", "end", "center"})
      => /\ Len(layout.placed) = 1
         /\ LET only == layout.placed[1]
                n == Len(only.line)
            IN  /\ only.line = items
                /\ only.main_cursor - only.start = SumMain(only.line) + gap * n
                /\ MainOf(only.at[n]) + MainSize(only.line[n]) - only.start
                     = MainExtent(only.line)

C7_Witness ==
    /\ rendered
    /\ flex_wrap = "nowrap"
    /\ justify = "center"
    /\ Len(items) = MaxItems
    /\ gap > 0
    /\ MainExtent(items) > MainBound

\* The box as __init__ built it, holding the children it has now.
AsBuilt ==
    [NewFlexBox([width |-> size[1], height |-> size[2], pixels |-> <<>>],
                padding, gap, direction, justify, align_items, flex_wrap)
       EXCEPT !.items = items]

SomeUnrecognized ==
    \/ direction \notin Directions
    \/ align_items \notin Aligns
    \/ flex_wrap \notin Wraps

\* C8: an unrecognized direction, align_items or flex_wrap is a hard failure
\* that paints nothing; only an unrecognized justify is tolerated, and laid
\* out as 'start'.
C8_UnrecognizedRaises ==
    /\ (RenderedChildren /\ SomeUnrecognized)
         => last.raised /\ image.pixels = <<>>
    /\ (RenderedChildren /\ justify \notin Justifies)
         => image = render([AsBuilt EXCEPT !.justify = "start"]).self.image

\* C8 as the code has it: no literal is rejected.  A box with an unrecognized
\* direction renders as the same box with 'column', with an unrecognized
\* align_items as with 'start', with an unrecognized flex_wrap as with
\* 'nowrap', and with an unrecognized justify as with 'start'.
C8_UnrecognizedFallsBack ==
    RenderedChildren
      => LET known == [AsBuilt EXCEPT
                         !.direction = IF @ \in Directions THEN @ ELSE "column",
                         !.align_items = IF @ \in Aligns THEN @ ELSE "start",
                         !.flex_wrap = IF @ \in Wraps THEN @ ELSE "nowrap",
                         !.justify = IF @ \in Justifies THEN @ ELSE "start"]
             r == render(known)
         IN  /\ last.raised = r.raised
             /\ image = r.self.image
             /\ width = r.self.width
             /\ height = r.self.height
             /\ rendered = r.self.rendered

C8_Witness ==
    /\ RenderedChildren
    /\ direction \notin Directions
    /\ rendered
    /\ Len(layout.lines) = 2
    /\ \E k \in 1..Len(items) : items[k].width # items[k].height

\* q is the floor of a / b, for b > 0.
IsFloorDiv(q, a, b) == b * q <= a /\ a < b * q + b

\* C9: with justify 'space-between' a line of several children starts at the
\* padding and leaves floor((container_main - 2*padding - total_main_size) /
\* (num_items - 1)) between consecutive children, whatever the gap (widths 10
\* and 20 in a width of 100 land at x = 0 and x = 80); a line of one child is
\* placed as by 'start', without a division by zero.
C9_SpaceBetween ==
    /\ (rendered /\ justify = "space-between")
         => \A k \in 1..Len(layout.placed) :
              LET L == layout.placed[k]
                  n == Len(L.line)
              IN  /\ MainOf(L.at[1]) = padding
                  /\ \A i \in 1..(n - 1) :
                       IsFloorDiv(MainOf(L.at[i + 1]) - (MainOf(L.at[i]) + MainSize(L.line[i])),
                                  MainBound - SumMain(L.line), n - 1)
                  /\ n = 1 => L.gap = gap
    /\ (rendered /\ justify = "space-between"
          /\ \A k \in 1..Len(layout.lines) : Len(layout.lines[k]) = 1)
         => image = render([AsBuilt EXCEPT !.justify = "start"]).self.image
    /\ LET ten == [width |-> 10, height |-> 10, pixels |-> <<>>]
           twenty == [width |-> 20, height |-> 10, pixels |-> <<>>]
           box == [NewFlexBox([width |-> 100, height |-> 100, pixels |-> <<>>],
                              0, gap, "row", "space-between", "start", "wrap")
                     EXCEPT !.items = <<ten, twenty>>]
           pixels == render(box).self.image.pixels
       IN  pixels[1].at[1] = 0 /\ pixels[2].at[1] = 80

C9_Witness ==
    /\ rendered
    /\ justify = "space-between"
    /\ gap > 0
    /\ \E k \in 1..Len(layout.placed) :
         /\ Len(layout.placed[k].line) = 2
         /\ layout.placed[k].gap # gap
    /\ \E k \in 1..Len(layout.placed) : Len(layout.placed[k].line) = 1

\* C10: whatever the children, wrap mode, gap and padding, every line the
\* line breaking produces holds a child, and render completes.
C10_LinesHoldChildren ==
    RenderedChildren
      => /\ \A k \in 1..Len(layout.lines) : Len(layout.lines[k]) >= 1
         /\ ~last.raised

----------------------------------------------------------------------------
\* C11: with flex_wrap 'wrap', gap >= 0, padding >= 0 and no child longer than
\* container_main - 2*padding, under each of the six justify modes every child
\* starts at or after the padding, ends at or before container_main - padding,
\* and consecutive children of a line do not overlap on the main axis.
C11_ChildrenInsideMain ==
    (/\ RenderedChildren
     /\ flex_wrap = "wrap"
     /\ justify \in Justifies
     /\ gap >= 0
     /\ padding >= 0
     /\ \A k \in 1..Len(items) : MainSize(items[k]) <= MainBound)
      => /\ rendered
         /\ Len(image.pixels) = Len(items)
         /\ \A k \in 1..Len(layout.placed) :
              LET L == layout.placed[k]
                  n == Len(L.line)
              IN  /\ \A i \in 1..n :
                       /\ MainOf(L.at[i]) >= padding
                       /\ MainOf(L.at[i]) + MainSize(L.line[i]) <= MainBound + padding
                  /\ \A i \in 1..(n - 1) :
                       MainOf(L.at[i]) + MainSize(L.line[i]) <= MainOf(L.at[i + 1])

C11_Witness ==
    /\ rendered
    /\ flex_wrap = "wrap"
    /\ justify = "space-around"
    /\ gap > 0
    /\ \A k \in 1..Len(items) : MainSize(items[k]) <= MainBound
    /\ Len(layout.placed) = 2
    /\ \E k \in 1..Len(layout.placed) :
         /\ Len(layout.placed[k].line) = 2
         /\ layout.placed[k].gap > 0

\* C12: in a row layout with align_items 'start', gap >= 0 and padding >= 0,
\* every child of a rendered box lies inside the canvas on the cross axis: it
\* starts at or below the padding and ends at or above the final canvas
\* height, whether or not the canvas was extended.
C12_RowCrossInside ==
    (rendered /\ direction = "row" /\ align_items = "start" /\ gap >= 0 /\ padding >= 0)
      => \A k \in 1..Len(image.pixels) :
            /\ image.pixels[k].at[2] >= padding
            /\ image.pixels[k].at[2] + image.pixels[k].item.height <= image.height

====
